---- MODULE Spec2Model ----
(***************************************************************************)
(* SafeZone frame-annotation pipeline: YOLODetector (modelLoader),         *)
(* VideoProcessor, the useWebcam hook, VideoDetectionPage and              *)
(* LiveWebcamPage.                                                         *)
(*                                                                         *)
(* A frame loop is one closure `processFrame` created by one call of       *)
(* processVideo.  Its position is "detect" while it is suspended at        *)
(* `await yoloDetector.detect(..)`, "raf" while its requestAnimationFrame  *)
(* callback is pending, "done" when it returned without re-arming or its   *)
(* callback was cancelled.  The settling of the detect promise, the firing *)
(* of an animation frame, the settling of loadModel and getUserMedia, the  *)
(* user's clicks and the media element's events are separate steps.        *)
(*                                                                         *)
(* The specifications share the detector and the processor:                *)
(*   SpecVideoPage       VideoDetectionPage driving one <video> element    *)
(*   SpecWebcamPage      LiveWebcamPage with the useWebcam hook            *)
(*   SpecApi             the exported classes called directly              *)
(*   SpecUpdateStats     a tick that delivers any batch to updateStats     *)
(*   SpecDrawDetections  a tick that draws any boxes on any surface        *)
(***************************************************************************)
EXTENDS Integers, Sequences, FiniteSets, TLC

\* ------------------------------------------------------------- bounds
MaxLoops == 2      \* processVideo invocations (frame loops, processors)
MaxLoads == 1      \* loadModel invocations in flight at once
MaxCalls == 2      \* startWebcam invocations (getUserMedia requests)
MaxEmptyRun == 5   \* consecutive empty batches that are counted
MaxBatch == 3      \* detections in a batch drawn for one tick
MaxBoxes == 1      \* detections in a batch drawn for one overlay

Loops == 1..MaxLoops
Calls == 1..MaxCalls

\* ------------------------------------------------------------- data
\* YOLODetector.classNames
ClassNames ==
  { "Protective Helmet", "Safety Jacket", "Protective Gloves", "Dust Mask",
    "Eye Wear", "Safety Boots", "Shield" }

\* Detection = {bbox, class, confidence}; confidence is kept in hundredths
\* (90 is 0.9), bbox is <<x, y, width, height>> in the 640x640 working square.
Detection(class, conf, bbox) ==
  [class |-> class, confidence |-> conf, bbox |-> bbox]

\* A box generateMockDetections can produce: x < 400, y < 300, 50 <= w, h < 150.
MockBox == <<0, 0, 50, 50>>

Helmet(conf) == Detection("Protective Helmet", conf, MockBox)
Jacket(conf) == Detection("Safety Jacket", conf, MockBox)

\* Batches generateMockDetections can return (1 to 4 detections).
MockBatches == { <<Helmet(50)>>, <<Helmet(90), Jacket(80)>> }

ZeroStats ==
  [totalDetections |-> 0, safeWorkers |-> 0, violations |-> 0,
   avgConfidence |-> [num |-> 0, den |-> 1]]

RECURSIVE SumConfidence(_)
SumConfidence(ds) ==
  IF ds = <<>> THEN 0 ELSE Head(ds).confidence + SumConfidence(Tail(ds))

HasClass(ds, c) == \E i \in 1..Len(ds) : ds[i].class = c

\* Numbers that are not integers are kept as exact fractions num/den.
RatEq(a, b) == a.num * b.den = b.num * a.den

SafeWorkers_Either(ds) ==
  IF HasClass(ds, "Protective Helmet") \/ HasClass(ds, "Safety Jacket")
    THEN 1 ELSE 0

\* hasHelmet && hasJacket ? 1 : 0
SafeWorkers(ds) ==
  LET hasHelmet == HasClass(ds, "Protective Helmet")
      hasJacket == HasClass(ds, "Safety Jacket")
  IN IF hasHelmet /\ hasJacket THEN 1 ELSE 0

Violations_IgnoreTotal(totalDetections, safeWorkers) ==
  IF safeWorkers = 0 THEN 1 ELSE 0

Violations_IgnoreSafe(totalDetections, safeWorkers) ==
  IF totalDetections > 0 THEN 1 ELSE 0

\* totalDetections > 0 && !safeWorkers ? 1 : 0
Violations(totalDetections, safeWorkers) ==
  IF totalDetections > 0 /\ safeWorkers = 0 THEN 1 ELSE 0

\* The local avgConfidence: the sum of the confidences over their number
\* (a confidence c in hundredths is c/100), 0 for an empty batch.
AvgConfidence(ds) ==
  IF Len(ds) > 0
    THEN [num |-> SumConfidence(ds), den |-> 100 * Len(ds)]
    ELSE [num |-> 0, den |-> 1]

Times100_Dropped(q) == q

\* avgConfidence * 100
Times100(q) == [num |-> 100 * q.num, den |-> q.den]

\* updateStats (VideoDetectionPage) / updateDetectionStats (LiveWebcamPage).
UpdateStats(ds) ==
  LET totalDetections == Len(ds)
      safeWorkers == SafeWorkers(ds)
      violations == Violations(totalDetections, safeWorkers)
  IN [totalDetections |-> totalDetections,
      safeWorkers |-> safeWorkers,
      violations |-> violations,
      avgConfidence |-> Times100(AvgConfidence(ds))]

UpdateDetectionStats(ds) == UpdateStats(ds)

\* videoWidth x videoHeight of a source: nothing loaded, and the 1280x720
\* the webcam is asked for.
NoSize == [width |-> 0, height |-> 0]
FrameSize == [width |-> 1280, height |-> 720]

\* The side of the detector's square working resolution.
WorkingSize == 640

ScaleBox_ByWidth(bbox, canvasWidth, canvasHeight) ==
  [x |-> [num |-> bbox[1] * canvasWidth, den |-> WorkingSize],
   y |-> [num |-> bbox[2] * canvasWidth, den |-> WorkingSize],
   width |-> [num |-> bbox[3] * canvasWidth, den |-> WorkingSize],
   height |-> [num |-> bbox[4] * canvasWidth, den |-> WorkingSize]]

\* drawDetections: scaledX = (x / 640) * canvasWidth, and so on.
ScaleBox(bbox, canvasWidth, canvasHeight) ==
  [x |-> [num |-> bbox[1] * canvasWidth, den |-> WorkingSize],
   y |-> [num |-> bbox[2] * canvasHeight, den |-> WorkingSize],
   width |-> [num |-> bbox[3] * canvasWidth, den |-> WorkingSize],
   height |-> [num |-> bbox[4] * canvasHeight, den |-> WorkingSize]]

\* drawDetections: the rectangles given to strokeRect, in order.
DrawDetections(ds, canvasWidth, canvasHeight) ==
  [i \in 1..Len(ds) |-> ScaleBox(ds[i].bbox, canvasWidth, canvasHeight)]

\* ------------------------------------------------------------- state
VARIABLES
  model,             \* YOLODetector.model !== null
  loadsPending,      \* loadModel invocations whose promise has not settled
  loadRet,           \* the loadModel promise settled in the last step (NoLoad: none)
  loadedOk,          \* some loadModel has resolved to true
  loadFailed,        \* some loadModel has resolved to false
  nProcs,            \* VideoProcessor objects constructed so far
  animationId,       \* per processor: 0 = null, l = latest handle of loop l
  loops,             \* the processFrame closures
  video,             \* the page's <video> element: paused, ended, src (a file is loaded), size
  wvideo,            \* per processor: the element processWebcam creates
  tick,              \* what processFrame did in the last step (NoTick: it did not run)
  op,                \* the page handler that ran last ("other": none since)
  selectedFile, isProcessing, isModelLoaded, isPlaying,
  detections, stats, videoProcessorRef,
  emptyRun,          \* history: consecutive empty batches VideoDetectionPage
                     \* received while isPlaying (counted up to MaxEmptyRun)
  isActive, error, streamRef, shownActive, calls, trackLive

detVars == <<model, loadsPending, loadedOk, loadFailed>>
procVars == <<nProcs, animationId, loops>>
viewVars == <<detections, stats, emptyRun>>
vpageVars == <<selectedFile, isProcessing, isPlaying>>
camVars == <<wvideo, isActive, error, streamRef, shownActive, calls, trackLive>>
vars == <<model, loadsPending, loadRet, loadedOk, loadFailed, nProcs, animationId, loops, video, wvideo, tick, op,
          selectedFile, isProcessing, isModelLoaded, isPlaying,
          detections, stats, videoProcessorRef, emptyRun,
          isActive, error, streamRef, shownActive, calls, trackLive>>

NoOut == [kind |-> "none", value |-> <<>>]
NoLoop ==
  [pc |-> "none", proc |-> 0, cam |-> FALSE, out |-> NoOut,
   stopped |-> FALSE, callModel |-> FALSE, fault |-> FALSE,
   canvas |-> NoSize]    \* canvas: the size the tick in flight gave the canvas
NoTick ==
  [loop |-> 0, seg |-> "none", paused |-> FALSE, ended |-> FALSE,
   frame |-> FALSE, detect |-> FALSE, rejected |-> FALSE, overlay |-> FALSE,
   callback |-> FALSE, armed |-> FALSE, stopped |-> FALSE,
   canvas |-> NoSize, rects |-> <<>>, statsBefore |-> ZeroStats,
   steps |-> <<>>]
NoVideo ==
  [stream |-> 0, meta |-> FALSE, paused |-> TRUE, ended |-> FALSE,
   size |-> NoSize]
NoCall == [state |-> "idle", ret |-> 0, pipeline |-> FALSE]
Null == "null"

\* ------------------------------------------------------------- detector
\* YOLODetector.detect: the body runs synchronously up to its return, so
\* the outcome is fixed by the state at the call; the promise settles later.
DetectOutcome_Rethrow(m, fault, mock) ==
  IF ~m \/ fault THEN [kind |-> "reject", value |-> <<>>]
  ELSE [kind |-> "resolve", value |-> mock]

DetectOutcome(m, fault, mock) ==
  IF ~m THEN [kind |-> "reject", value |-> <<>>]
  ELSE IF fault THEN [kind |-> "resolve", value |-> <<>>]
  ELSE [kind |-> "resolve", value |-> mock]

\* YOLODetector.isLoaded
isLoaded == model

NoLoad == [result |-> "none", created |-> FALSE]

LoadModelOutcome_AlwaysTrue(m, created) ==
  IF created THEN [model |-> TRUE, result |-> "true"]
  ELSE [model |-> m, result |-> "true"]

LoadModelOutcome_AssignFirst(m, created) ==
  IF created THEN [model |-> TRUE, result |-> "true"]
  ELSE [model |-> TRUE, result |-> "false"]

\* YOLODetector.loadModel after its delay: createDummyModel returns or throws.
LoadModelOutcome(m, created) ==
  IF created THEN [model |-> TRUE, result |-> "true"]
  ELSE [model |-> m, result |-> "false"]

\* A pending loadModel promise settles.
LoadSettles(created) ==
  LET r == LoadModelOutcome(model, created)
  IN /\ loadsPending > 0
     /\ loadsPending' = loadsPending - 1
     /\ model' = r.model
     /\ loadRet' = [result |-> r.result, created |-> created]
     /\ loadedOk' = (loadedOk \/ r.result = "true")
     /\ loadFailed' = (loadFailed \/ r.result = "false")

\* ------------------------------------------------------------- processor
SourceIdle_EndedOnly(v) == v.ended

\* processFrame's guard on the source.
SourceIdle(v) == v.paused \/ v.ended

LoopSource(lp) == IF lp.cam THEN wvideo[lp.proc] ELSE video

\* tf.browser.fromPixels throws on an element that has no frame: detect's
\* catch then returns [].
NoFrameData(lp) == ~lp.cam /\ ~video.src

HasFreeLoop == \E l \in Loops : loops[l].pc = "none"
NewLoop == CHOOSE l \in Loops :
             loops[l].pc = "none" /\ \A k \in 1..(l - 1) : loops[k].pc # "none"

BeginTick_NoSuspend(lp, v, m, fault, mock) ==
  IF SourceIdle(v)
    THEN [lp EXCEPT !.pc = "done"]
    ELSE [lp EXCEPT !.pc = "raf"]

BeginTick_IdleRearms(lp, v, m, fault, mock) ==
  IF SourceIdle(v)
    THEN [lp EXCEPT !.pc = "raf"]
    ELSE [lp EXCEPT !.pc = "detect", !.out = DetectOutcome(m, fault, mock),
                    !.callModel = m, !.fault = fault, !.canvas = v.size]

\* processFrame from its entry to the await (or to the early return).
BeginTick(lp, v, m, fault, mock) ==
  IF SourceIdle(v)
    THEN [lp EXCEPT !.pc = "done"]
    ELSE [lp EXCEPT !.pc = "detect", !.out = DetectOutcome(m, fault, mock),
                    !.callModel = m, !.fault = fault, !.canvas = v.size]

BeginTrace(l, lp, v) ==
  [NoTick EXCEPT !.loop = l, !.seg = "begin", !.paused = v.paused,
                 !.ended = v.ended, !.frame = (lp.pc = "detect"),
                 !.detect = (lp.pc = "detect"), !.stopped = lp.stopped,
                 !.steps = IF lp.pc = "detect"
                             THEN <<"drawImage", "detect">> ELSE <<>>]

\* processFrame after the await: the try body, the catch, the re-arm.
ResumeDraws(out) == out.kind = "resolve"
ResumeCalls(out) == out.kind = "resolve"
ResumeArms_InsideTry(out) == out.kind = "resolve"
ResumeArms(out) == TRUE

\* The calls processFrame makes after the await, in the order it makes them.
ResumeSteps(out) ==
  (IF ResumeDraws(out) THEN <<"drawDetections">> ELSE <<>>)
    \o (IF ResumeCalls(out) THEN <<"onDetection">> ELSE <<>>)
    \o (IF ResumeArms(out) THEN <<"requestAnimationFrame">> ELSE <<>>)

\* cancelAnimationFrame(handle): only a pending callback is removed.
CancelAnimationFrame(ls, aid) ==
  [l \in Loops |-> IF l = aid /\ ls[l].pc = "raf"
                     THEN [ls[l] EXCEPT !.pc = "done"] ELSE ls[l]]

\* VideoProcessor.stopProcessing on processor p (0: no processor).
StopProcessingLoops(ls, aids, p) ==
  LET cancelled == IF p # 0 /\ aids[p] # 0
                     THEN CancelAnimationFrame(ls, aids[p]) ELSE ls
  IN [l \in Loops |->
        IF p # 0 /\ cancelled[l].proc = p /\ cancelled[l].pc \in {"detect", "raf"}
          THEN [cancelled[l] EXCEPT !.stopped = TRUE] ELSE cancelled[l]]

StopProcessingId(aids, p) ==
  IF p # 0 /\ aids[p] # 0 THEN [aids EXCEPT ![p] = 0] ELSE aids

SetStats_KeepFirst(old, new) == IF old = ZeroStats THEN new ELSE old

\* setStats(value) / setDetectionStats(value): the state is replaced.
SetStats(old, new) == new

\* History: the stats VideoDetectionPage showed before onDetection, while
\* isPlaying.
StatsBefore(running, st) == IF running THEN st ELSE ZeroStats

\* The history counter after onDetection(ds).
EmptyRun(n, running, ds) ==
  IF running /\ ds = <<>>
    THEN (IF n < MaxEmptyRun THEN n + 1 ELSE n)
    ELSE 0

\* The detect promise of loop l settles and processFrame resumes.
DetectSettle(l) ==
  /\ loops[l].pc = "detect"
  /\ LET lp == loops[l]
         out == lp.out
         drew == ResumeDraws(out)
         called == ResumeCalls(out)
         armed == ResumeArms(out)
     IN /\ loops' = [loops EXCEPT ![l] =
                       [lp EXCEPT !.pc = IF armed THEN "raf" ELSE "done",
                                  !.out = NoOut, !.callModel = FALSE,
                                  !.fault = FALSE, !.canvas = NoSize]]
        /\ animationId' = IF armed THEN [animationId EXCEPT ![lp.proc] = l]
                                   ELSE animationId
        /\ detections' = IF called THEN out.value ELSE detections
        /\ stats' = IF called
                      THEN SetStats(stats,
                             IF lp.cam THEN UpdateDetectionStats(out.value)
                                       ELSE UpdateStats(out.value))
                      ELSE stats
        /\ emptyRun' = IF called THEN EmptyRun(emptyRun, isPlaying, out.value)
                                 ELSE emptyRun
        /\ tick' = [NoTick EXCEPT !.loop = l, !.seg = "resume",
                                  !.rejected = (out.kind = "reject"),
                                  !.overlay = drew, !.callback = called,
                                  !.armed = armed, !.stopped = lp.stopped,
                                  !.statsBefore = StatsBefore(isPlaying, stats),
                                  !.steps = ResumeSteps(out),
                                  !.canvas = lp.canvas,
                                  !.rects = IF drew
                                    THEN DrawDetections(out.value,
                                           lp.canvas.width, lp.canvas.height)
                                    ELSE <<>>]
  /\ loadRet' = NoLoad
  /\ op' = "other"
  /\ UNCHANGED <<detVars, nProcs, video, vpageVars, isModelLoaded,
                 videoProcessorRef, camVars>>

\* The animation frame of loop l fires and processFrame runs again.
RafFire(l) ==
  /\ loops[l].pc = "raf"
  /\ \E fault \in BOOLEAN, mock \in MockBatches :
       LET v == LoopSource(loops[l])
           lp == BeginTick(loops[l], v, model, fault, mock)
       IN /\ NoFrameData(loops[l]) => fault
          /\ loops' = [loops EXCEPT ![l] = lp]
          /\ tick' = BeginTrace(l, lp, v)
  /\ loadRet' = NoLoad
  /\ op' = "other"
  /\ UNCHANGED <<detVars, nProcs, animationId, video, vpageVars, isModelLoaded,
                 viewVars, videoProcessorRef, camVars>>

\* ------------------------------------------------------------- VideoDetectionPage
InitCommon ==
  /\ model = FALSE
  /\ loadRet = NoLoad
  /\ loadedOk = FALSE
  /\ loadFailed = FALSE
  /\ nProcs = 0
  /\ animationId = [p \in Loops |-> 0]
  /\ loops = [l \in Loops |-> NoLoop]
  /\ video = [paused |-> TRUE, ended |-> FALSE, src |-> FALSE, size |-> NoSize]
  /\ wvideo = [p \in Loops |-> NoVideo]
  /\ tick = NoTick
  /\ op = "init"
  /\ selectedFile = FALSE
  /\ isModelLoaded = FALSE
  /\ isPlaying = FALSE
  /\ detections = <<>>
  /\ stats = ZeroStats
  /\ emptyRun = 0
  /\ videoProcessorRef = 0
  /\ isActive = FALSE
  /\ error = Null
  /\ streamRef = 0
  /\ shownActive = FALSE
  /\ calls = [c \in Calls |-> NoCall]
  /\ trackLive = [c \in Calls |-> FALSE]

\* The page is mounted and its effect has called loadModel.
InitVideoPage ==
  /\ InitCommon
  /\ loadsPending = 1
  /\ isProcessing = TRUE

\* loadModel settles; the effect stores the result.
VLoadSettle ==
  /\ \E created \in BOOLEAN :
       /\ LoadSettles(created)
       /\ isModelLoaded' = (loadRet'.result = "true")
  /\ isProcessing' = FALSE
  /\ tick' = NoTick
  /\ op' = "loadSettle"
  /\ UNCHANGED <<procVars, video, selectedFile, isPlaying, viewVars,
                 videoProcessorRef, camVars>>

\* handleFileSelect with a video file.  videoRef.current is the element
\* rendered for the previous selection, and null when there was none.
HandleFileSelect ==
  /\ selectedFile' = TRUE
  /\ detections' = <<>>
  /\ stats' = ZeroStats
  /\ emptyRun' = 0
  /\ video' = IF selectedFile
                THEN [paused |-> TRUE, ended |-> FALSE, src |-> TRUE,
                      size |-> FrameSize]
                ELSE video
  /\ tick' = NoTick
  /\ loadRet' = NoLoad
  /\ op' = "handleFileSelect"
  /\ UNCHANGED <<detVars, procVars, isProcessing, isModelLoaded, isPlaying,
                 videoProcessorRef, camVars>>

\* startDetection: guard, new VideoProcessor, processVideo, then video.play().
StartDetection ==
  /\ ~isPlaying /\ ~isProcessing
  /\ selectedFile /\ isModelLoaded
  /\ HasFreeLoop /\ nProcs < MaxLoops
  /\ \E fault \in BOOLEAN, mock \in MockBatches :
       LET p == nProcs + 1
           l == NewLoop
           lp == BeginTick([NoLoop EXCEPT !.proc = p], video, model, fault, mock)
       IN /\ NoFrameData(NoLoop) => fault
          /\ nProcs' = p
          /\ videoProcessorRef' = p
          /\ loops' = [loops EXCEPT ![l] = lp]
          /\ tick' = BeginTrace(l, lp, video)
  /\ video' = [video EXCEPT !.paused = FALSE, !.ended = FALSE]
  /\ isPlaying' = TRUE
  /\ isProcessing' = FALSE
  /\ loadRet' = NoLoad
  /\ op' = "startDetection"
  /\ UNCHANGED <<detVars, animationId, selectedFile, isModelLoaded, viewVars,
                 camVars>>

\* stopDetection: video.pause(), stopProcessing(), setIsPlaying(false).
StopDetection ==
  /\ isPlaying
  /\ video' = [video EXCEPT !.paused = TRUE]
  /\ loops' = StopProcessingLoops(loops, animationId, videoProcessorRef)
  /\ animationId' = StopProcessingId(animationId, videoProcessorRef)
  /\ isPlaying' = FALSE
  /\ tick' = NoTick
  /\ loadRet' = NoLoad
  /\ emptyRun' = 0
  /\ op' = "stopDetection"
  /\ UNCHANGED <<detVars, nProcs, selectedFile, isProcessing,
                 isModelLoaded, detections, stats, videoProcessorRef, camVars>>

\* The element's native controls, shown while isPlaying is false.
VideoUserPlay ==
  /\ selectedFile /\ ~isPlaying
  /\ video.src /\ video.paused
  /\ video' = [video EXCEPT !.paused = FALSE, !.ended = FALSE]
  /\ tick' = NoTick
  /\ loadRet' = NoLoad
  /\ op' = "videoPlay"
  /\ UNCHANGED <<detVars, procVars, vpageVars, isModelLoaded, viewVars,
                 videoProcessorRef, camVars>>

VideoUserPause ==
  /\ selectedFile /\ ~isPlaying
  /\ ~video.paused
  /\ video' = [video EXCEPT !.paused = TRUE]
  /\ tick' = NoTick
  /\ loadRet' = NoLoad
  /\ op' = "videoPause"
  /\ UNCHANGED <<detVars, procVars, vpageVars, isModelLoaded, viewVars,
                 videoProcessorRef, camVars>>

\* Playback reaches the end of the file.
VideoEnds ==
  /\ video.src /\ ~video.paused /\ ~video.ended
  /\ video' = [video EXCEPT !.paused = TRUE, !.ended = TRUE]
  /\ tick' = NoTick
  /\ loadRet' = NoLoad
  /\ op' = "other"
  /\ UNCHANGED <<detVars, procVars, vpageVars, isModelLoaded, viewVars,
                 videoProcessorRef, camVars>>

NextVideoPage ==
  \/ VLoadSettle
  \/ HandleFileSelect
  \/ StartDetection
  \/ StopDetection
  \/ VideoUserPlay
  \/ VideoUserPause
  \/ VideoEnds
  \/ \E l \in Loops : DetectSettle(l)
  \/ \E l \in Loops : RafFire(l)

SpecVideoPage == InitVideoPage /\ [][NextVideoPage]_vars

\* ------------------------------------------------------------- claims (VideoDetectionPage)
\* C1: a detect result that arrives after stopProcessing() was called on its
\* processor is discarded: neither drawDetections nor onDetection runs for it.
C1_InFlightResultDiscarded ==
  (tick.seg = "resume" /\ tick.stopped) => (~tick.overlay /\ ~tick.callback)

\* C2: at most one detect() call is in flight for the page's video element
\* and canvas, over any sequence of start, stop, play and pause.
C2_OneDetectInFlight ==
  Cardinality({l \in Loops : loops[l].pc = "detect"}) <= 1

\* C3: once stopProcessing() has returned, no frame callback of the stopped
\* loop is scheduled and no further tick of it runs.
C3_StopCancelsTick ==
  /\ \A l \in Loops : loops[l].stopped => loops[l].pc # "raf"
  /\ (tick.seg = "begin") => ~tick.stopped

\* C7: a tick that finds the source paused or ended makes no detect call,
\* draws nothing, does not invoke onDetection and leaves detections and
\* stats as they were.
C7_PausedTickSkips ==
  [][ (tick'.seg = "begin" /\ (tick'.paused \/ tick'.ended)) =>
        /\ ~tick'.detect /\ ~tick'.frame /\ ~tick'.overlay /\ ~tick'.callback
        /\ loops'[tick'.loop].pc = "done"
        /\ detections' = detections
        /\ stats' = stats ]_vars

\* A scheduled tick ran while the element was paused, after results existed.
C7_Witness ==
  /\ op = "other" /\ tick.seg = "begin" /\ tick.paused
  /\ detections # <<>>

\* C8: right after startDetection() ran (file selected, model loaded,
\* elements mounted) the frame loop of the new processor is running.
C8_StartRuns ==
  op = "startDetection" =>
    \E l \in Loops : /\ loops[l].proc = videoProcessorRef
                     /\ loops[l].pc \in {"detect", "raf"}

\* ------------------------------------------------------------- the exported classes
\* A caller that holds one VideoProcessor, the yoloDetector singleton, a
\* video element and a canvas, and calls their methods in any order.
InitApi ==
  /\ model = FALSE
  /\ loadsPending = 0
  /\ loadRet = NoLoad
  /\ loadedOk = FALSE
  /\ loadFailed = FALSE
  /\ nProcs = 1
  /\ animationId = [p \in Loops |-> 0]
  /\ loops = [l \in Loops |-> NoLoop]
  /\ video = [paused |-> TRUE, ended |-> FALSE, src |-> TRUE, size |-> FrameSize]
  /\ wvideo = [p \in Loops |-> NoVideo]
  /\ tick = NoTick
  /\ op = "other"
  /\ selectedFile = FALSE
  /\ isProcessing = FALSE
  /\ isModelLoaded = FALSE
  /\ isPlaying = FALSE
  /\ detections = <<>>
  /\ stats = ZeroStats
  /\ emptyRun = 0
  /\ videoProcessorRef = 1
  /\ isActive = FALSE
  /\ error = Null
  /\ streamRef = 0
  /\ shownActive = FALSE
  /\ calls = [c \in Calls |-> NoCall]
  /\ trackLive = [c \in Calls |-> FALSE]

\* yoloDetector.loadModel(..) is called.
ApiLoadModel ==
  /\ loadsPending < MaxLoads
  /\ loadsPending' = loadsPending + 1
  /\ tick' = NoTick
  /\ loadRet' = NoLoad
  /\ op' = "other"
  /\ UNCHANGED <<model, loadedOk, loadFailed, procVars, video, vpageVars,
                 isModelLoaded, viewVars, videoProcessorRef, camVars>>

\* A loadModel promise settles.
ApiLoadSettle ==
  /\ \E created \in BOOLEAN : LoadSettles(created)
  /\ tick' = NoTick
  /\ op' = "other"
  /\ UNCHANGED <<procVars, video, vpageVars, isModelLoaded, viewVars,
                 videoProcessorRef, camVars>>

\* processor.processVideo(video, canvas, onDetection).
ApiProcessVideo ==
  /\ HasFreeLoop
  /\ \E fault \in BOOLEAN, mock \in MockBatches :
       LET l == NewLoop
           lp == BeginTick([NoLoop EXCEPT !.proc = 1], video, model, fault, mock)
       IN /\ loops' = [loops EXCEPT ![l] = lp]
          /\ tick' = BeginTrace(l, lp, video)
  /\ loadRet' = NoLoad
  /\ op' = "other"
  /\ UNCHANGED <<detVars, nProcs, animationId, video, vpageVars, isModelLoaded,
                 viewVars, videoProcessorRef, camVars>>

\* processor.stopProcessing().
ApiStopProcessing ==
  /\ loops' = StopProcessingLoops(loops, animationId, 1)
  /\ animationId' = StopProcessingId(animationId, 1)
  /\ tick' = NoTick
  /\ loadRet' = NoLoad
  /\ op' = "other"
  /\ UNCHANGED <<detVars, nProcs, video, vpageVars, isModelLoaded,
                 viewVars, videoProcessorRef, camVars>>

\* video.play() / video.pause().
ApiVideoPlay ==
  /\ video.paused
  /\ video' = [video EXCEPT !.paused = FALSE, !.ended = FALSE]
  /\ tick' = NoTick
  /\ loadRet' = NoLoad
  /\ op' = "other"
  /\ UNCHANGED <<detVars, procVars, vpageVars, isModelLoaded, viewVars,
                 videoProcessorRef, camVars>>

ApiVideoPause ==
  /\ ~video.paused
  /\ video' = [video EXCEPT !.paused = TRUE]
  /\ tick' = NoTick
  /\ loadRet' = NoLoad
  /\ op' = "other"
  /\ UNCHANGED <<detVars, procVars, vpageVars, isModelLoaded, viewVars,
                 videoProcessorRef, camVars>>

NextApi ==
  \/ ApiLoadModel
  \/ ApiLoadSettle
  \/ ApiProcessVideo
  \/ ApiStopProcessing
  \/ ApiVideoPlay
  \/ ApiVideoPause
  \/ \E l \in Loops : DetectSettle(l)
  \/ \E l \in Loops : RafFire(l)

SpecApi == InitApi /\ [][NextApi]_vars

\* ------------------------------------------------------------- claims (exported classes)
\* C5: when the detect call of a tick rejects, that tick draws no overlay,
\* does not invoke onDetection (detections and stats keep their values), and
\* the next tick is scheduled.
C5_RejectedTick ==
  [][ (tick'.seg = "resume" /\ tick'.rejected) =>
        /\ ~tick'.overlay /\ ~tick'.callback /\ tick'.armed
        /\ loops'[tick'.loop].pc = "raf"
        /\ animationId'[loops'[tick'.loop].proc] = tick'.loop
        /\ detections' = detections
        /\ stats' = stats ]_vars

\* A rejected tick left stats of an earlier tick in place and re-armed.
C5_Witness ==
  /\ tick.seg = "resume" /\ tick.rejected
  /\ stats # ZeroStats
  /\ loops[tick.loop].pc = "raf"

\* C6 as stated: no detect call ever rejects, in any detector state.
C6_DetectNeverRejects ==
  \A l \in Loops : loops[l].out.kind # "reject"

\* C6 amended: a detect call rejects exactly when no model was loaded at the
\* call; with a model loaded it resolves, to the empty sequence on an
\* internal fault and to the detections otherwise.
C6_DetectOutcome ==
  \A l \in Loops :
    loops[l].pc = "detect" =>
      LET lp == loops[l]
      IN /\ (lp.out.kind = "reject") <=> ~lp.callModel
         /\ (lp.callModel /\ lp.fault) =>
              (lp.out.kind = "resolve" /\ lp.out.value = <<>>)
         /\ (lp.callModel /\ ~lp.fault) =>
              (lp.out.kind = "resolve" /\ lp.out.value \in MockBatches)

\* A detect call that hit an internal fault with the model loaded.
C6_Witness ==
  \E l \in Loops :
    /\ loops[l].pc = "detect" /\ loops[l].callModel /\ loops[l].fault
    /\ loops[l].out.kind = "resolve"

\* C10: loadModel never throws; it resolves to true exactly when the model
\* was created and to false otherwise; isLoaded() is true exactly when some
\* load has succeeded, so a failed load leaves it as it was.
C10_LoadModel ==
  /\ loadRet.result \in {"none", "true", "false"}
  /\ loadRet.result = "true" => loadRet.created
  /\ loadRet.result = "false" => ~loadRet.created
  /\ isLoaded <=> loadedOk

\* A failed load followed by a retry that succeeded.
C10_Witness ==
  /\ loadFailed
  /\ loadRet.result = "true"
  /\ isLoaded

\* ------------------------------------------------------------- useWebcam, LiveWebcamPage
\* What getUserMedia rejects with: an Error carrying the browser's message,
\* or a value that is not an Error.
GumErrors ==
  { [isError |-> TRUE, message |-> "Permission denied"],
    [isError |-> FALSE, message |-> ""] }

\* startWebcam's catch: err instanceof Error ? err.message : 'Failed to access webcam'.
ErrorMessage(err) ==
  IF err.isError THEN err.message ELSE "Failed to access webcam"

PipelineStarts_CanvasOnly(stream, mounted) == mounted

\* startStream after `await startWebcam()`: if (stream && canvasRef.current).
PipelineStarts(stream, mounted) == stream # 0 /\ mounted

\* The page is mounted and its effect has called loadModel.
InitWebcamPage ==
  /\ InitCommon
  /\ loadsPending = 1
  /\ isProcessing = FALSE

\* loadModel settles; the effect stores the result.
WLoadSettle ==
  /\ \E created \in BOOLEAN :
       /\ LoadSettles(created)
       /\ isModelLoaded' = (loadRet'.result = "true")
  /\ tick' = NoTick
  /\ op' = "loadSettle"
  /\ UNCHANGED <<procVars, video, vpageVars, viewVars, videoProcessorRef,
                 camVars>>

\* React renders the page: the canvas is mounted exactly while isActive.
WRender ==
  /\ shownActive # isActive
  /\ shownActive' = isActive
  /\ tick' = NoTick
  /\ loadRet' = NoLoad
  /\ op' = "other"
  /\ UNCHANGED <<detVars, procVars, video, vpageVars, isModelLoaded, viewVars,
                 videoProcessorRef, wvideo, isActive, error, streamRef, calls,
                 trackLive>>

\* startStream up to the await inside startWebcam: setError(null), getUserMedia.
StartStream ==
  /\ ~shownActive /\ isModelLoaded
  /\ \E c \in Calls :
       /\ calls[c].state = "idle"
       /\ \A k \in 1..(c - 1) : calls[k].state # "idle"
       /\ calls' = [calls EXCEPT ![c].state = "pending"]
  /\ error' = Null
  /\ tick' = NoTick
  /\ loadRet' = NoLoad
  /\ op' = "startStream"
  /\ UNCHANGED <<detVars, procVars, video, vpageVars, isModelLoaded, viewVars,
                 videoProcessorRef, wvideo, isActive, streamRef, shownActive,
                 trackLive>>

\* getUserMedia resolves: startWebcam stores the stream and returns it, and
\* startStream goes on to processWebcam when the canvas is mounted.  flush:
\* setIsActive(true) outside an event handler renders at once or later.
\* The VideoProcessor a startStream call constructs takes the call's number.
GumResolve(c) ==
  /\ calls[c].state = "pending"
  /\ \E flush \in BOOLEAN :
       LET mounted == shownActive \/ flush
           starts == PipelineStarts(c, mounted)
           p == c
       IN /\ starts => p \in Loops
          /\ shownActive' = mounted
          /\ trackLive' = [trackLive EXCEPT ![c] = TRUE]
          /\ streamRef' = c
          /\ isActive' = TRUE
          /\ calls' = [calls EXCEPT ![c] =
                         [state |-> "resolved", ret |-> c, pipeline |-> starts]]
          /\ nProcs' = IF starts THEN nProcs + 1 ELSE nProcs
          /\ videoProcessorRef' = IF starts THEN p ELSE videoProcessorRef
          /\ wvideo' = IF starts
                         THEN [wvideo EXCEPT ![p] = [NoVideo EXCEPT !.stream = c]]
                         ELSE wvideo
  /\ tick' = NoTick
  /\ loadRet' = NoLoad
  /\ op' = "gumResolve"
  /\ UNCHANGED <<detVars, animationId, loops, video, vpageVars, isModelLoaded,
                 viewVars, error>>

\* getUserMedia rejects: startWebcam's catch, then startStream's test.
GumReject(c) ==
  /\ calls[c].state = "pending"
  /\ \E err \in GumErrors, flush \in BOOLEAN :
       LET mounted == shownActive /\ ~flush
           starts == PipelineStarts(0, mounted)
           p == c
       IN /\ starts => p \in Loops
          /\ error' = ErrorMessage(err)
          /\ isActive' = FALSE
          /\ shownActive' = mounted
          /\ calls' = [calls EXCEPT ![c] =
                         [state |-> "rejected", ret |-> 0, pipeline |-> starts]]
          /\ nProcs' = IF starts THEN nProcs + 1 ELSE nProcs
          /\ videoProcessorRef' = IF starts THEN p ELSE videoProcessorRef
          /\ wvideo' = IF starts THEN [wvideo EXCEPT ![p] = NoVideo] ELSE wvideo
  /\ tick' = NoTick
  /\ loadRet' = NoLoad
  /\ op' = "gumReject"
  /\ UNCHANGED <<detVars, animationId, loops, video, vpageVars, isModelLoaded,
                 viewVars, streamRef, trackLive>>

\* stopWebcam: the stream in streamRef has its tracks stopped.
StopWebcamTracks(live, ref) ==
  IF ref # 0 THEN [live EXCEPT ![ref] = FALSE] ELSE live

\* stopStream: stopWebcam(), stopProcessing(), reset detections and stats.
StopStream ==
  /\ shownActive
  /\ trackLive' = StopWebcamTracks(trackLive, streamRef)
  /\ streamRef' = 0
  /\ isActive' = FALSE
  /\ error' = Null
  /\ shownActive' = FALSE
  /\ loops' = StopProcessingLoops(loops, animationId, videoProcessorRef)
  /\ animationId' = StopProcessingId(animationId, videoProcessorRef)
  /\ detections' = <<>>
  /\ stats' = ZeroStats
  /\ emptyRun' = 0
  /\ tick' = NoTick
  /\ loadRet' = NoLoad
  /\ op' = "stopStream"
  /\ UNCHANGED <<detVars, nProcs, video, vpageVars, isModelLoaded,
                 videoProcessorRef, wvideo, calls>>

\* video.onloadedmetadata of the element processWebcam created: processVideo.
\* Each processor of this page runs processVideo once; its loop takes its number.
\* The element has autoplay set; it may or may not be playing by now.
WLoadedMetadata(p) ==
  /\ wvideo[p].stream # 0 /\ ~wvideo[p].meta
  /\ trackLive[wvideo[p].stream]
  /\ loops[p].pc = "none"
  /\ \E playing \in BOOLEAN, fault \in BOOLEAN, mock \in MockBatches :
       LET v == [wvideo[p] EXCEPT !.meta = TRUE, !.paused = ~playing,
                                  !.size = FrameSize]
           l == p
           lp == BeginTick([NoLoop EXCEPT !.proc = p, !.cam = TRUE],
                           v, model, fault, mock)
       IN /\ wvideo' = [wvideo EXCEPT ![p] = v]
          /\ loops' = [loops EXCEPT ![l] = lp]
          /\ tick' = BeginTrace(l, lp, v)
  /\ loadRet' = NoLoad
  /\ op' = "other"
  /\ UNCHANGED <<detVars, nProcs, animationId, video, vpageVars, isModelLoaded,
                 viewVars, videoProcessorRef, isActive, error, streamRef,
                 shownActive, calls, trackLive>>

\* Autoplay starts the element.
WAutoplay(p) ==
  /\ wvideo[p].meta /\ wvideo[p].paused /\ ~wvideo[p].ended
  /\ trackLive[wvideo[p].stream]
  /\ wvideo' = [wvideo EXCEPT ![p].paused = FALSE]
  /\ tick' = NoTick
  /\ loadRet' = NoLoad
  /\ op' = "other"
  /\ UNCHANGED <<detVars, procVars, video, vpageVars, isModelLoaded, viewVars,
                 videoProcessorRef, isActive, error, streamRef, shownActive,
                 calls, trackLive>>

\* The element notices that its stream has no live track left.
WStreamEnded(p) ==
  /\ wvideo[p].meta /\ ~wvideo[p].ended
  /\ ~trackLive[wvideo[p].stream]
  /\ wvideo' = [wvideo EXCEPT ![p].ended = TRUE]
  /\ tick' = NoTick
  /\ loadRet' = NoLoad
  /\ op' = "other"
  /\ UNCHANGED <<detVars, procVars, video, vpageVars, isModelLoaded, viewVars,
                 videoProcessorRef, isActive, error, streamRef, shownActive,
                 calls, trackLive>>

NextWebcamPage ==
  \/ WLoadSettle
  \/ WRender
  \/ StartStream
  \/ \E c \in Calls : GumResolve(c)
  \/ \E c \in Calls : GumReject(c)
  \/ StopStream
  \/ \E p \in Loops : WLoadedMetadata(p)
  \/ \E p \in Loops : WAutoplay(p)
  \/ \E p \in Loops : WStreamEnded(p)
  \/ \E l \in Loops : DetectSettle(l)
  \/ \E l \in Loops : RafFire(l)

SpecWebcamPage == InitWebcamPage /\ [][NextWebcamPage]_vars

\* ------------------------------------------------------------- claims (LiveWebcamPage)
\* C4: after stopWebcam() has returned, every stream startWebcam() acquired
\* has all of its tracks stopped.
C4_StopReleasesAllStreams ==
  op = "stopStream" =>
    \A c \in Calls : calls[c].state = "resolved" => ~trackLive[c]

InitTick(out, size) ==
  /\ model = TRUE
  /\ loadsPending = 0
  /\ loadRet = NoLoad
  /\ loadedOk = TRUE
  /\ loadFailed = FALSE
  /\ nProcs = 1
  /\ animationId = [p \in Loops |-> 0]
  /\ loops = [l \in Loops |->
                IF l = 1
                  THEN [NoLoop EXCEPT !.pc = "detect", !.proc = 1, !.out = out,
                                      !.callModel = TRUE,
                                      !.fault = (out.value = <<>>),
                                      !.canvas = size]
                  ELSE NoLoop]
  /\ video = [paused |-> FALSE, ended |-> FALSE, src |-> TRUE, size |-> size]
  /\ wvideo = [p \in Loops |-> NoVideo]
  /\ tick = NoTick
  /\ op = "other"
  /\ selectedFile = FALSE
  /\ isProcessing = FALSE
  /\ isModelLoaded = FALSE
  /\ isPlaying = FALSE
  /\ detections = <<>>
  /\ stats = ZeroStats
  /\ emptyRun = 0
  /\ videoProcessorRef = 1
  /\ isActive = FALSE
  /\ error = Null
  /\ streamRef = 0
  /\ shownActive = FALSE
  /\ calls = [c \in Calls |-> NoCall]
  /\ trackLive = [c \in Calls |-> FALSE]

NextTick ==
  \/ \E l \in Loops : DetectSettle(l)
  \/ \E l \in Loops : RafFire(l)

\* Confidences generateMockDetections draws (0.5 up to 1), in hundredths.
Confidences == {50, 90}

Batches ==
  UNION { [1..n -> { Detection(c, conf, MockBox) :
                       c \in ClassNames, conf \in Confidences }] :
          n \in 0..MaxBatch }

\* The first tick delivers any batch of up to MaxBatch detections.
InitUpdateStats ==
  \E ds \in Batches : InitTick([kind |-> "resolve", value |-> ds], FrameSize)

SpecUpdateStats == InitUpdateStats /\ [][NextTick]_vars

\* ------------------------------------------------------------- claims (aggregation)
CountClass(ds, c) == Cardinality({i \in 1..Len(ds) : ds[i].class = c})

\* C11: the safe count is 1 exactly when the batch holds at least one
\* 'Protective Helmet' and at least one 'Safety Jacket' detection, whatever
\* else it holds and whatever its size, and 0 otherwise; never more than 1.
C11_SafeCount ==
  /\ stats.safeWorkers \in {0, 1}
  /\ stats.safeWorkers = 1 <=>
       /\ CountClass(detections, "Protective Helmet") >= 1
       /\ CountClass(detections, "Safety Jacket") >= 1

\* A batch of three with a helmet, a jacket and another class was aggregated.
C11_Witness ==
  /\ tick.seg = "resume" /\ tick.callback
  /\ Len(detections) = 3
  /\ stats.safeWorkers = 1
  /\ \E i \in 1..3 :
       detections[i].class \notin {"Protective Helmet", "Safety Jacket"}

\* C12: the violation count is 1 exactly when the batch is not empty and the
\* safe count is 0; the two counts are never both 1, and exactly one of them
\* is 1 when the batch is not empty.
C12_ViolationCount ==
  /\ stats.violations \in {0, 1}
  /\ stats.violations = 1 <=> (Len(detections) > 0 /\ stats.safeWorkers = 0)
  /\ ~(stats.safeWorkers = 1 /\ stats.violations = 1)
  /\ Len(detections) > 0 => stats.safeWorkers + stats.violations = 1

\* A batch with two helmets and no jacket was aggregated as a violation.
C12_Witness ==
  /\ tick.seg = "resume" /\ tick.callback
  /\ CountClass(detections, "Protective Helmet") = 2
  /\ CountClass(detections, "Safety Jacket") = 0
  /\ stats.violations = 1

\* The arithmetic mean of the confidences of a batch, each taken in [0,1].
MeanConfidence(ds) == [num |-> SumConfidence(ds), den |-> 100 * Len(ds)]

\* C15 as stated: the stored average confidence equals the arithmetic mean
\* of the batch's confidences (each in [0,1]), and 0 for the empty batch.
C15_AverageIsMean ==
  IF detections = <<>>
    THEN RatEq(stats.avgConfidence, [num |-> 0, den |-> 1])
    ELSE RatEq(stats.avgConfidence, MeanConfidence(detections))

\* C15 amended: the stored average confidence equals 100 times the
\* arithmetic mean of the batch's confidences (a percentage), 0 when empty.
C15_AverageIsPercent ==
  IF detections = <<>>
    THEN RatEq(stats.avgConfidence, [num |-> 0, den |-> 1])
    ELSE RatEq(stats.avgConfidence,
               [num |-> 100 * MeanConfidence(detections).num,
                den |-> MeanConfidence(detections).den])

\* A batch with confidences 0.5, 0.9, 0.9 was aggregated.
C15_Witness ==
  /\ tick.seg = "resume" /\ tick.callback
  /\ Len(detections) = 3
  /\ SumConfidence(detections) = 230

\* ------------------------------------------------------------- claims (ticks)
\* C13: while the pipeline is running, every tick whose detect returns the
\* empty list leaves the stats at {0,0,0,0} and schedules the next tick; so
\* it is after each of 5 consecutive such ticks.
C13_EmptyTicks ==
  [][ /\ (tick'.seg = "resume" /\ tick'.callback /\ detections' = <<>>
            /\ isPlaying) =>
           /\ stats' = ZeroStats
           /\ isPlaying'
           /\ loops'[tick'.loop].pc = "raf"
           /\ animationId'[loops'[tick'.loop].proc] = tick'.loop
      /\ emptyRun' > 0 => (stats' = ZeroStats /\ isPlaying') ]_vars

\* The fifth consecutive empty tick has just completed.
C13_Witness ==
  /\ emptyRun = 5
  /\ tick.seg = "resume" /\ tick.callback
  /\ isPlaying
  /\ stats = ZeroStats
  /\ loops[tick.loop].pc = "raf"

\* The stats of the two batches of the alternating scenario.
StatsOfPair ==
  [totalDetections |-> 2, safeWorkers |-> 1, violations |-> 0,
   avgConfidence |-> [num |-> 85, den |-> 1]]
StatsOfSingle ==
  [totalDetections |-> 1, safeWorkers |-> 0, violations |-> 1,
   avgConfidence |-> [num |-> 50, den |-> 1]]

SameStats(a, b) ==
  /\ a.totalDetections = b.totalDetections
  /\ a.safeWorkers = b.safeWorkers
  /\ a.violations = b.violations
  /\ RatEq(a.avgConfidence, b.avgConfidence)

\* C14: the stats are replaced wholesale each tick and depend only on that
\* tick's batch: after a tick with [{Protective Helmet,0.9},{Safety Jacket,0.8}]
\* they are {2,1,0,85.0}, after a tick with [{Protective Helmet,0.5}] they are
\* {1,0,1,50.0}, whatever they were before.
C14_StatsFollowBatch ==
  /\ detections = <<Helmet(90), Jacket(80)>> => SameStats(stats, StatsOfPair)
  /\ detections = <<Helmet(50)>> => SameStats(stats, StatsOfSingle)
  /\ detections = <<>> => SameStats(stats, ZeroStats)

\* The pair batch was aggregated right after the single batch had been.
C14_Witness ==
  /\ tick.seg = "resume" /\ tick.callback
  /\ SameStats(tick.statsBefore, StatsOfSingle)
  /\ detections = <<Helmet(90), Jacket(80)>>
  /\ SameStats(stats, StatsOfPair)

\* ------------------------------------------------------------- one tick, any boxes
\* Corner values of the boxes generateMockDetections draws.
MockBoxes ==
  { <<x, y, w, h>> : x \in {0, 399}, y \in {0, 299},
                     w \in {50, 149}, h \in {50, 149} }

\* Sizes of the source: landscape, the working square, portrait.
Sizes ==
  { FrameSize, [width |-> WorkingSize, height |-> WorkingSize],
    [width |-> 480, height |-> 854] }

BoxBatches ==
  UNION { [1..n -> { Detection("Protective Helmet", 50, b) : b \in MockBoxes }] :
          n \in 1..MaxBoxes }

\* The first tick delivers any batch of up to MaxBoxes boxes, on any size.
InitDrawDetections ==
  \E ds \in BoxBatches, size \in Sizes :
    InitTick([kind |-> "resolve", value |-> ds], size)

SpecDrawDetections == InitDrawDetections /\ [][NextTick]_vars

\* ------------------------------------------------------------- claims (overlay)
InsideSquare(bbox) ==
  /\ bbox[1] >= 0 /\ bbox[2] >= 0 /\ bbox[3] >= 0 /\ bbox[4] >= 0
  /\ bbox[1] + bbox[3] <= WorkingSize
  /\ bbox[2] + bbox[4] <= WorkingSize

\* a + b <= n for fractions a, b and an integer n
SumAtMost(a, b, n) == a.num * b.den + b.num * a.den <= n * a.den * b.den

InsideSurface(r, canvasWidth, canvasHeight) ==
  /\ r.x.num >= 0 /\ r.y.num >= 0 /\ r.width.num >= 0 /\ r.height.num >= 0
  /\ SumAtMost(r.x, r.width, canvasWidth)
  /\ SumAtMost(r.y, r.height, canvasHeight)

\* C16: drawDetections multiplies x and width by canvasWidth/640 and y and
\* height by canvasHeight/640; so a box inside the 640x640 square is drawn
\* inside the target surface, whatever the surface's dimensions.
C16_BoxScaling ==
  (tick.seg = "resume" /\ tick.overlay) =>
    /\ Len(tick.rects) = Len(detections)
    /\ \A i \in 1..Len(detections) :
         LET b == detections[i].bbox
             r == tick.rects[i]
             cw == tick.canvas.width
             ch == tick.canvas.height
         IN /\ RatEq(r.x, [num |-> b[1] * cw, den |-> WorkingSize])
            /\ RatEq(r.width, [num |-> b[3] * cw, den |-> WorkingSize])
            /\ RatEq(r.y, [num |-> b[2] * ch, den |-> WorkingSize])
            /\ RatEq(r.height, [num |-> b[4] * ch, den |-> WorkingSize])
            /\ InsideSquare(b) => InsideSurface(r, cw, ch)

\* The largest, farthest box was drawn on a surface that is not square.
C16_Witness ==
  /\ tick.seg = "resume" /\ tick.overlay
  /\ tick.canvas.width # tick.canvas.height
  /\ Len(detections) >= 1
  /\ detections[1].bbox = <<399, 299, 149, 149>>
  /\ InsideSurface(tick.rects[1], tick.canvas.width, tick.canvas.height)

\* ------------------------------------------------------------- claims (frame loop)
Before(steps, a, b) ==
  \A i, j \in 1..Len(steps) : (steps[i] = a /\ steps[j] = b) => i < j

\* C17: within one frame loop a tick draws the frame and calls detect, is
\* suspended only there, then draws the overlays, then runs onDetection to
\* completion, and only then schedules the next tick; a tick of a loop starts
\* only when the loop's previous tick has completed.
C17_TickOrder ==
  [][ /\ (tick'.seg = "begin" /\ ~tick'.paused /\ ~tick'.ended) =>
           /\ loops[tick'.loop].pc \in {"none", "raf"}
           /\ loops'[tick'.loop].pc = "detect"
           /\ tick'.steps = <<"drawImage", "detect">>
           /\ ~tick'.overlay /\ ~tick'.callback /\ ~tick'.armed
           /\ detections' = detections /\ stats' = stats
      /\ tick'.seg = "resume" =>
           /\ loops[tick'.loop].pc = "detect"
           /\ loops'[tick'.loop].pc \in {"raf", "done"}
           /\ Before(tick'.steps, "drawDetections", "onDetection")
           /\ Before(tick'.steps, "onDetection", "requestAnimationFrame")
           /\ Before(tick'.steps, "drawDetections", "requestAnimationFrame")
           /\ tick'.callback => SameStats(stats', UpdateStats(detections'))
           /\ tick'.armed <=> loops'[tick'.loop].pc = "raf"
      /\ \A l \in Loops :
           (loops[l].pc = "detect" /\ loops'[l].pc # "detect") =>
             (tick'.seg = "resume" /\ tick'.loop = l) ]_vars

\* A later tick of a loop completed all three steps after the await.
C17_Witness ==
  /\ tick.seg = "resume"
  /\ tick.steps = <<"drawDetections", "onDetection", "requestAnimationFrame">>
  /\ tick.statsBefore # ZeroStats
  /\ loops[tick.loop].pc = "raf"

\* C18: a tick that finds the source paused or ended schedules no next tick
\* and ends its frame loop; an ended loop never runs again, whatever the
\* source does afterwards: only a new processVideo call starts a loop.
C18_IdleTickEndsLoop ==
  [][ /\ (tick'.seg = "begin" /\ (tick'.paused \/ tick'.ended)) =>
           /\ loops'[tick'.loop].pc = "done"
           /\ animationId' = animationId
      /\ \A l \in Loops : loops[l].pc = "done" => loops'[l] = loops[l]
      /\ \A l \in Loops :
           (loops[l].pc = "none" /\ loops'[l].pc # "none") =>
             op' = "startDetection" ]_vars

\* startDetection's first tick found the video paused; the video now plays
\* and no frame loop is left.
C18_Witness ==
  /\ op = "startDetection"
  /\ tick.seg = "begin" /\ tick.paused
  /\ loops[tick.loop].pc = "done"
  /\ isPlaying /\ video.src /\ ~video.paused
  /\ \A l \in Loops : loops[l].pc \in {"none", "done"}

\* ------------------------------------------------------------- claims (pages)
\* C19: on either page a running frame pipeline implies a loaded detector:
\* no pipeline is started and no camera is asked for while isModelLoaded is
\* false, isModelLoaded is true only after loadModel resolved true, the model
\* is never unloaded, and no detect call of the pipeline finds the model
\* missing.
C19_RunningImpliesLoaded ==
  /\ (\E l \in Loops : loops[l].pc \in {"detect", "raf"}) =>
       (isLoaded /\ isModelLoaded)
  /\ isModelLoaded => (loadedOk /\ isLoaded)
  /\ loadedOk => isLoaded
  /\ ~isModelLoaded =>
       /\ nProcs = 0
       /\ \A l \in Loops : loops[l].pc = "none"
       /\ \A c \in Calls : calls[c].state = "idle"
  /\ \A l \in Loops :
       loops[l].pc = "detect" =>
         (loops[l].callModel /\ loops[l].out.kind = "resolve")

\* A webcam frame loop is suspended in a detect call.
C19_Witness ==
  \E l \in Loops :
    /\ loops[l].pc = "detect" /\ loops[l].cam
    /\ loops[l].callModel
    /\ isModelLoaded /\ isActive

\* C20: isActive is true exactly when streamRef holds a stream with live
\* tracks, and error is non-null only while isActive is false.
C20_FlagsAgree ==
  /\ isActive <=> (streamRef # 0 /\ trackLive[streamRef])
  /\ error # Null => ~isActive

====
